---- MODULE Spec2Model ----
(***************************************************************************)
(* The slide editor of streamlit_theta: the PowerPointEditor class of      *)
(* editor/utils/powerpoint/core.py (scene model, selection, drag/resize    *)
(* gestures, clipboard, undo/redo history) and the inline editor script    *)
(* of editor/powerpoint.py.                                                *)
(*                                                                         *)
(* Numbers are exact rationals <<n, d>> (d > 0, lowest terms): the         *)
(* coordinates are JavaScript numbers and every value the model reaches    *)
(* (integers and halves of moderate size) is exact in binary floating      *)
(* point.  A JavaScript object reference is modelled by the field `held`   *)
(* of an element: it is TRUE for the one element object a gesture closure  *)
(* captured, and a deep copy (JSON.parse(JSON.stringify(..))) never        *)
(* carries it, because a deep copy creates new objects.                    *)
(***************************************************************************)
EXTENDS Integers, Sequences, FiniteSets, TLC

VARIABLES
    slides,           \* this.slides
    currentSlide,     \* this.currentSlide (0-based, as in the source)
    selectedElement,  \* this.selectedElement (an element id or null)
    zoomLevel,        \* this.zoomLevel
    isDragging,       \* this.isDragging
    isResizing,       \* this.isResizing
    dragStart,        \* this.dragStart
    elementStart,     \* this.elementStart
    history,          \* this.history
    historyIndex,     \* this.historyIndex (0-based, -1 when empty)
    clipboard,        \* this.clipboard
    listener,         \* the document mousemove/mouseup listeners of a gesture
    interleaved,      \* another handler ran since the gesture's mousedown
    inline,           \* the globals of the script of editor/powerpoint.py
    csv,              \* the globals of the script of editor/csv.py
    scope             \* which bound of the model the exploration keeps

coreVars == <<slides, currentSlide, selectedElement, zoomLevel, isDragging,
              isResizing, dragStart, elementStart, history, historyIndex,
              clipboard, listener, interleaved>>

vars == <<slides, currentSlide, selectedElement, zoomLevel, isDragging,
          isResizing, dragStart, elementStart, history, historyIndex,
          clipboard, listener, interleaved, inline, csv, scope>>

----------------------------------------------------------------------------
(* Bounds of the model *)

\* longest history the model builds (the program's own cap is HistoryCap)
MaxHistory == 3
\* most slides / most elements on one slide the model builds
MaxSlides == 3
MaxElements == 2
\* longest history of the gesture specification
GestureHistory == 2
\* rightmost position of an element that is copied
MaxClipboardX == 120

\* outcomes of Math.random().toString(36).substr(2, 9) the model draws from
RandomIds == {"a", "b"}
\* pointer positions (clientX, clientY) of mouse events
PointerDown == <<400, 300>>
PointerMoves == {<<424, 312>>, <<0, 0>>}
\* arguments of setZoom
ZoomInputs == {<<1, 2>>, <<1, 1>>, <<2, 1>>}
\* largest numerator and denominator of a zoom level the model follows
MaxZoomTerm == 10000000
\* keydown events: key, ctrlKey, metaKey, shiftKey
KeyEvents ==
    {[key |-> k, ctrlKey |-> FALSE, metaKey |-> FALSE, shiftKey |-> FALSE] :
        k \in {"Delete", "Backspace", "z", "c"}}
    \cup {[key |-> k, ctrlKey |-> TRUE, metaKey |-> FALSE, shiftKey |-> FALSE] :
        k \in {"z", "y", "c", "v", "s"}}
    \cup {[key |-> k, ctrlKey |-> FALSE, metaKey |-> TRUE, shiftKey |-> FALSE] :
        k \in {"z", "y", "c", "v"}}
    \cup {[key |-> "Z", ctrlKey |-> TRUE, metaKey |-> FALSE, shiftKey |-> TRUE],
          [key |-> "Z", ctrlKey |-> FALSE, metaKey |-> TRUE, shiftKey |-> TRUE]}
\* levels handed to setZoom directly: below, inside and above the range
ZoomLevels == {<<0 - 1, 1>>, <<0, 1>>, <<1, 20>>, <<3, 4>>, <<100, 1>>}
\* wrap.clientWidth, wrap.clientHeight and canvas.offsetWidth,
\* canvas.offsetHeight that zoomFit can measure
Layouts ==
    {[wrap |-> <<20, 20>>, canvas |-> <<966, 546>>],
     [wrap |-> <<523, 313>>, canvas |-> <<966, 546>>],
     [wrap |-> <<1400, 800>>, canvas |-> <<966, 546>>]}

----------------------------------------------------------------------------
(* Rational arithmetic *)

RECURSIVE Gcd(_, _)
Gcd(a, b) == IF b = 0 THEN a ELSE Gcd(b, a % b)

Abs(a) == IF a < 0 THEN -a ELSE a

Norm(n, d) ==
    LET g == Gcd(Abs(n), Abs(d))
        s == IF d < 0 THEN -1 ELSE 1
    IN  <<(s * n) \div g, (s * d) \div g>>

Num(n) == <<n, 1>>
Plus(a, b) == Norm(a[1] * b[2] + b[1] * a[2], a[2] * b[2])
Minus(a, b) == Norm(a[1] * b[2] - b[1] * a[2], a[2] * b[2])
Times(a, b) == Norm(a[1] * b[1], a[2] * b[2])
Over(a, b) == Norm(a[1] * b[2], a[2] * b[1])
Leq(a, b) == a[1] * b[2] <= b[1] * a[2]
MathMax(a, b) == IF Leq(a, b) THEN b ELSE a
MathMin(a, b) == IF Leq(a, b) THEN a ELSE b

----------------------------------------------------------------------------
(* Scene model *)

null == <<>>

\* content is the text of a text element; an image's src and a shape's kind
\* are what prompt() returned and stand as the empty content
Text(id, x, y, w, h) ==
    [type |-> "text", id |-> id, content |-> "New Text",
     x |-> Num(x), y |-> Num(y),
     width |-> Num(w), height |-> Num(h), held |-> FALSE]
Image(id, x, y, w, h) ==
    [Text(id, x, y, w, h) EXCEPT !.type = "image", !.content = ""]
Shape(id, x, y, w, h) ==
    [Text(id, x, y, w, h) EXCEPT !.type = "shape", !.content = ""]

\* a slide title: 'Title Slide' is base 0, `Slide ${n}` is base n, and each
\* ' (Copy)' suffix counts in copies
getDefaultSlides ==
    << [id |-> <<"slide", "1">>, title |-> [base |-> 0, copies |-> 0],
        elements |-> << [Text(<<"text", "1">>, 100, 100, 600, 80) EXCEPT
                            !.content = "Click to edit title"] >>,
        background |-> "#ffffff"] >>

\* JSON.parse(JSON.stringify(el)): a new object, which no closure holds
CopyElement(el) == [el EXCEPT !.held = FALSE]
CopySlide(s) ==
    [s EXCEPT !.elements = [j \in DOMAIN @ |-> CopyElement(@[j])]]
DeepCopy(ss) == [i \in DOMAIN ss |-> CopySlide(ss[i])]

\* [].splice(at, 1) and [].splice(at, 0, x), at 0-based
SpliceOut(s, at) ==
    IF at >= Len(s) THEN s ELSE SubSeq(s, 1, at) \o SubSeq(s, at + 2, Len(s))
SpliceIn(s, at, x) == SubSeq(s, 1, at) \o <<x>> \o SubSeq(s, at + 1, Len(s))

\* the program's cap on the history length
HistoryCap == 50

\* Math.random().toString(36).substr(2, 9): any of its outcomes
generateId == RandomIds

----------------------------------------------------------------------------
(* Methods of PowerPointEditor, as functions of the editor state e *)

\* saveState without the slice that drops the undone snapshots
saveStateKeepingRedo(e) ==
    [e EXCEPT !.history = Append(e.history, DeepCopy(e.slides)),
              !.historyIndex = e.historyIndex + 1]

\* saveState without the cap: nothing is evicted
saveStateUncapped(e) ==
    [e EXCEPT !.history = Append(SubSeq(e.history, 1, e.historyIndex + 1),
                                 DeepCopy(e.slides)),
              !.historyIndex = e.historyIndex + 1]

\* saveState that evicts the oldest snapshot and forgets historyIndex--
saveStateStaleIndex(e) ==
    LET pushed == Append(SubSeq(e.history, 1, e.historyIndex + 1),
                         DeepCopy(e.slides))
    IN  [e EXCEPT !.history = IF Len(pushed) > HistoryCap THEN Tail(pushed)
                              ELSE pushed,
                  !.historyIndex = e.historyIndex + 1]

\* saveState that writes the copy over the snapshot at historyIndex
saveStateInPlace(e) ==
    IF e.historyIndex < 0
    THEN [e EXCEPT !.history = <<DeepCopy(e.slides)>>, !.historyIndex = 0]
    ELSE [e EXCEPT !.history =
             [SubSeq(e.history, 1, e.historyIndex + 1) EXCEPT
                 ![e.historyIndex + 1] = DeepCopy(e.slides)]]

saveState(e) ==
    LET kept == SubSeq(e.history, 1, e.historyIndex + 1)
        pushed == Append(kept, DeepCopy(e.slides))
        idx == e.historyIndex + 1
    IN  IF Len(pushed) > HistoryCap
        THEN [e EXCEPT !.history = Tail(pushed), !.historyIndex = idx - 1]
        ELSE [e EXCEPT !.history = pushed, !.historyIndex = idx]

\* undo that clamps the index at 0 and reloads the snapshot there
undoClamped(e) ==
    LET idx == IF e.historyIndex > 0 THEN e.historyIndex - 1 ELSE 0
    IN  [e EXCEPT !.historyIndex = idx,
                  !.slides = DeepCopy(e.history[idx + 1])]

undo(e) ==
    IF e.historyIndex > 0
    THEN [e EXCEPT !.historyIndex = e.historyIndex - 1,
                   !.slides = DeepCopy(e.history[e.historyIndex])]
    ELSE e

redo(e) ==
    IF e.historyIndex < Len(e.history) - 1
    THEN [e EXCEPT !.historyIndex = e.historyIndex + 1,
                   !.slides = DeepCopy(e.history[e.historyIndex + 2])]
    ELSE e

selectElement(e, elementId) == [e EXCEPT !.selectedElement = elementId]

clearSelection(e) == [e EXCEPT !.selectedElement = null]

selectSlide(e, index) == clearSelection([e EXCEPT !.currentSlide = index])

\* this.slides[this.currentSlide] is an object (not undefined)
HasCurrent(e) == e.currentSlide + 1 \in DOMAIN e.slides

\* slides[currentSlide].elements.push(element); selectElement; saveState.
\* Without a current slide the push throws a TypeError before any change.
PushElement(e, element) ==
    IF ~HasCurrent(e) THEN e
    ELSE saveState(selectElement(
            [e EXCEPT !.slides[e.currentSlide + 1].elements =
                          Append(@, element)],
            element.id))

addTextElement(e, r) == PushElement(e, Text(<<"text", r>>, 100, 100, 200, 50))

\* url is what prompt() returned: FALSE stands for an empty or cancelled one
addImageElement(e, url, r) ==
    IF ~url THEN e
    ELSE PushElement(e, Image(<<"img", r>>, 150, 150, 200, 150))

addShapeElement(e, r) ==
    PushElement(e, Shape(<<"shape", r>>, 200, 200, 120, 80))

deleteSelectedElement(e) ==
    IF e.selectedElement = null \/ ~HasCurrent(e) THEN e
    ELSE LET Keep(el) == el.id # e.selectedElement
         IN  saveState(clearSelection(
                [e EXCEPT !.slides[e.currentSlide + 1].elements =
                              SelectSeq(@, Keep)]))

\* addSlide that leaves the current slide and the selection as they are
addSlideInPlace(e, r) ==
    LET newSlide == [id |-> <<"slide", r>>,
                     title |-> [base |-> Len(e.slides) + 1, copies |-> 0],
                     elements |-> <<>>, background |-> "#ffffff"]
    IN  saveState([e EXCEPT !.slides = Append(@, newSlide)])

addSlide(e, r) ==
    LET newSlide == [id |-> <<"slide", r>>,
                     title |-> [base |-> Len(e.slides) + 1, copies |-> 0],
                     elements |-> <<>>, background |-> "#ffffff"]
        pushed == [e EXCEPT !.slides = Append(@, newSlide)]
    IN  saveState(selectSlide(pushed, Len(pushed.slides) - 1))

\* renderCanvas throws without a current slide, and saveState is then skipped
\* removeSlide without the test of slides.length
removeSlideUnguarded(e) ==
    LET spliced == [e EXCEPT
            !.slides = SpliceOut(@, e.currentSlide),
            !.currentSlide = IF e.currentSlide - 1 > 0
                             THEN e.currentSlide - 1 ELSE 0]
    IN  IF HasCurrent(spliced) THEN saveState(spliced) ELSE spliced

removeSlide(e) ==
    IF Len(e.slides) <= 1 THEN e
    ELSE LET spliced == [e EXCEPT
                 !.slides = SpliceOut(@, e.currentSlide),
                 !.currentSlide = IF e.currentSlide - 1 > 0
                                  THEN e.currentSlide - 1 ELSE 0]
         IN  IF HasCurrent(spliced) THEN saveState(spliced) ELSE spliced

\* r is the id drawn for the slide, rs[j] the one drawn for its j-th element
duplicateSlide(e, r, rs) ==
    IF ~HasCurrent(e) THEN e ELSE
    LET src == CopySlide(e.slides[e.currentSlide + 1])
        dup == [src EXCEPT
                  !.id = <<"slide", r>>,
                  !.title.copies = @ + 1,
                  !.elements = [j \in DOMAIN @ |->
                                  [@[j] EXCEPT !.id = <<src.elements[j].type,
                                                        rs[j]>>]]]
        placed == [e EXCEPT !.slides = SpliceIn(@, e.currentSlide + 1, dup)]
    IN  saveState(selectSlide(placed, e.currentSlide + 1))

\* setZoom without the lower clamp
setZoomNoFloor(e, level) ==
    [e EXCEPT !.zoomLevel = MathMin(level, Num(5))]

setZoom(e, level) ==
    [e EXCEPT !.zoomLevel = MathMax(<<1, 10>>, MathMin(level, Num(5)))]

zoomIn(e) == setZoom(e, Times(e.zoomLevel, <<5, 4>>))

zoomOut(e) == setZoom(e, Over(e.zoomLevel, <<5, 4>>))

zoomFit(e, layout) ==
    LET scaleW == Over(Num(layout.wrap[1] - 40), Num(layout.canvas[1]))
        scaleH == Over(Num(layout.wrap[2] - 40), Num(layout.canvas[2]))
    IN  setZoom(e, MathMin(MathMin(scaleW, scaleH), Num(1)))

\* [].find: the first element of the current slide with the selected id
FindSelected(e) ==
    LET els == IF HasCurrent(e) THEN e.slides[e.currentSlide + 1].elements
               ELSE <<>>
        hits == {j \in DOMAIN els : els[j].id = e.selectedElement}
    IN  IF hits = {} THEN null
        ELSE els[CHOOSE j \in hits : \A k \in hits : j <= k]

\* JSON.parse(JSON.stringify(undefined)) throws: the assignment never happens
copy(e) ==
    IF e.selectedElement = null \/ FindSelected(e) = null THEN e
    ELSE [e EXCEPT !.clipboard = CopyElement(FindSelected(e))]

\* paste that snapshots before it looks at the clipboard
pasteSavingFirst(e, r) ==
    IF e.clipboard = null THEN saveState(e)
    ELSE IF ~HasCurrent(e) THEN e
    ELSE LET c == e.clipboard
             newElement == [c EXCEPT !.id = <<c.type, r>>,
                                     !.x = Plus(c.x, Num(20)),
                                     !.y = Plus(c.y, Num(20))]
         IN  PushElement(e, newElement)

paste(e, r) ==
    IF e.clipboard = null THEN e
    ELSE IF ~HasCurrent(e) THEN e
    ELSE LET c == e.clipboard
             newElement == [c EXCEPT !.id = <<c.type, r>>,
                                     !.x = Plus(c.x, Num(20)),
                                     !.y = Plus(c.y, Num(20))]
         IN  PushElement(e, newElement)

\* div.ondblclick of an element's div: for a text element it calls
\* this.enterTextEditMode(div), which the class does not define, so the
\* handler ends in a TypeError; for the others it does nothing
ondblclick(e, element) == e

\* typing text into the div of a text element and leaving it: setupTextElement
\* sets contentEditable = false and no input, keydown or blur handler on the
\* div, so the keystrokes change no text and reach no code of the element
oninput(e, element, text) == e

\* handleKeyboardShortcuts(e): ev is the keydown event (ev.key as the browser
\* reports it: "Z" when Shift is held with Ctrl), r the id paste would draw.
\* Ctrl/Cmd+S calls exportJSON, which downloads and changes nothing.
handleKeyboardShortcuts(e, ev, r) ==
    LET switched ==
            IF ~(ev.ctrlKey \/ ev.metaKey) THEN e
            ELSE IF ev.key = "z" THEN undo(e)
            ELSE IF ev.key = "y" THEN redo(e)
            ELSE IF ev.key = "c" THEN copy(e)
            ELSE IF ev.key = "v" THEN paste(e, r)
            ELSE e
    IN  IF ev.key = "Delete" /\ switched.selectedElement # null
        THEN deleteSelectedElement(switched)
        ELSE switched

\* JSON.stringify(this.slides, null, 2): the document is given by the value
\* its text parses to, the slides as saveState copies them
exportJSON(e) == DeepCopy(e.slides)

\* this.importJSON(): the class defines no importJSON, so the call in the
\* import button's handler throws "this.importJSON is not a function" for
\* every document, before anything is read or written
importJSON(e, document) == [editor |-> e, error |-> "TypeError"]

----------------------------------------------------------------------------
(* Gestures: startDrag / startResize and the listeners they register *)

NoListener ==
    [kind |-> "none", direction |-> {}, startX |-> 0, startY |-> 0,
     startWidth |-> Num(0), startHeight |-> Num(0),
     startLeft |-> Num(0), startTop |-> Num(0)]

\* the 8 handle tags, each as the set of letters direction.includes() tests
Handles == {{"n", "w"}, {"n", "e"}, {"s", "w"}, {"s", "e"},
            {"n"}, {"s"}, {"w"}, {"e"}}

\* the closure's `element`: the object is reachable from this.slides or not
\* (f maps each element to what the closure's write makes of it)
MapHeld(ss, f) ==
    [i \in DOMAIN ss |->
        [ss[i] EXCEPT !.elements =
            [j \in DOMAIN @ |-> IF @[j].held THEN f[@[j]] ELSE @[j]]]]

ElementsOf(ss) ==
    UNION {{ss[i].elements[j] : j \in DOMAIN ss[i].elements} : i \in DOMAIN ss}

Release(ss) == [el \in ElementsOf(ss) |-> [el EXCEPT !.held = FALSE]]

\* setupDragAndResize puts handles on every element
ResizeHandlesAlways(e, element) == Handles

\* setupDragAndResize, addResizeHandles: the handles appended to the div of
\* an element when the canvas is rendered
ResizeHandles(e, element) ==
    IF e.selectedElement = element.id THEN Handles ELSE {}

startDrag(e, j, p) ==
    LET el == e.slides[e.currentSlide + 1].elements[j]
    IN  [e EXCEPT !.isDragging = TRUE,
                  !.dragStart = [x |-> p[1], y |-> p[2]],
                  !.elementStart = [x |-> el.x, y |-> el.y],
                  !.slides[e.currentSlide + 1].elements[j].held = TRUE,
                  !.listener = [NoListener EXCEPT !.kind = "drag"]]

\* (pointerNow - pointerStart) / zoom
\* the pointer's displacement taken as the canvas displacement
dragDeltaScreen(from, to, zoom) == Num(to - from)

dragDelta(from, to, zoom) == Over(Num(to - from), zoom)

\* onMouseMove that snapshots what it wrote
dragMouseMoveSaving(e, p) ==
    IF ~e.isDragging THEN e
    ELSE LET deltaX == dragDelta(e.dragStart.x, p[1], e.zoomLevel)
             deltaY == dragDelta(e.dragStart.y, p[2], e.zoomLevel)
             Move(el) ==
                 [el EXCEPT !.x = MathMax(Num(0), Plus(e.elementStart.x, deltaX)),
                            !.y = MathMax(Num(0), Plus(e.elementStart.y, deltaY))]
         IN  saveState([e EXCEPT !.slides =
                          MapHeld(@, [el \in ElementsOf(@) |-> Move(el)])])

\* onMouseMove that adds the delta to the element's live position
dragMouseMoveLive(e, p) ==
    IF ~e.isDragging THEN e
    ELSE LET deltaX == dragDelta(e.dragStart.x, p[1], e.zoomLevel)
             deltaY == dragDelta(e.dragStart.y, p[2], e.zoomLevel)
             Move(el) ==
                 [el EXCEPT !.x = MathMax(Num(0), Plus(el.x, deltaX)),
                            !.y = MathMax(Num(0), Plus(el.y, deltaY))]
         IN  [e EXCEPT !.slides =
                          MapHeld(@, [el \in ElementsOf(@) |-> Move(el)])]

\* startDrag.onMouseMove
dragMouseMove(e, p) ==
    IF ~e.isDragging THEN e
    ELSE LET deltaX == dragDelta(e.dragStart.x, p[1], e.zoomLevel)
             deltaY == dragDelta(e.dragStart.y, p[2], e.zoomLevel)
             Move(el) ==
                 [el EXCEPT !.x = MathMax(Num(0), Plus(e.elementStart.x, deltaX)),
                            !.y = MathMax(Num(0), Plus(e.elementStart.y, deltaY))]
         IN  [e EXCEPT !.slides =
                          MapHeld(@, [el \in ElementsOf(@) |-> Move(el)])]

\* startDrag.onMouseUp
\* onMouseUp without its saveState
dragMouseUpUnsaved(e) ==
    [e EXCEPT !.isDragging = FALSE,
              !.slides = MapHeld(@, Release(@)),
              !.listener = NoListener]

dragMouseUp(e) ==
    saveState([e EXCEPT !.isDragging = FALSE,
                        !.slides = MapHeld(@, Release(@)),
                        !.listener = NoListener])

startResize(e, j, direction, p) ==
    LET el == e.slides[e.currentSlide + 1].elements[j]
    IN  [e EXCEPT !.isResizing = TRUE,
                  !.slides[e.currentSlide + 1].elements[j].held = TRUE,
                  !.listener = [kind |-> "resize", direction |-> direction,
                                startX |-> p[1], startY |-> p[2],
                                startWidth |-> el.width,
                                startHeight |-> el.height,
                                startLeft |-> el.x, startTop |-> el.y]]

\* handleResize without the Math.max(0, ...) on the new left and top
handleResizeUnclamped(element, direction, deltaX, deltaY, startWidth, startHeight, startLeft, startTop) ==
    LET newWidth ==
            IF "w" \in direction THEN MathMax(Num(20), Minus(startWidth, deltaX))
            ELSE IF "e" \in direction
                 THEN MathMax(Num(20), Plus(startWidth, deltaX))
            ELSE startWidth
        newHeight ==
            IF "n" \in direction THEN MathMax(Num(20), Minus(startHeight, deltaY))
            ELSE IF "s" \in direction
                 THEN MathMax(Num(20), Plus(startHeight, deltaY))
            ELSE startHeight
    IN  [element EXCEPT
            !.width = newWidth, !.height = newHeight,
            !.x = IF "w" \in direction THEN Plus(startLeft, deltaX)
                  ELSE startLeft,
            !.y = IF "n" \in direction THEN Plus(startTop, deltaY)
                  ELSE startTop]

\* handleResize whose west and north handles grow the box by +delta
handleResizeSameSign(element, direction, deltaX, deltaY, startWidth, startHeight, startLeft, startTop) ==
    LET newWidth ==
            IF "w" \in direction \/ "e" \in direction
            THEN MathMax(Num(20), Plus(startWidth, deltaX))
            ELSE startWidth
        newLeft == IF "w" \in direction THEN Plus(startLeft, deltaX)
                   ELSE startLeft
        newHeight ==
            IF "n" \in direction \/ "s" \in direction
            THEN MathMax(Num(20), Plus(startHeight, deltaY))
            ELSE startHeight
        newTop == IF "n" \in direction THEN Plus(startTop, deltaY)
                  ELSE startTop
    IN  [element EXCEPT !.width = newWidth, !.height = newHeight,
                        !.x = MathMax(Num(0), newLeft),
                        !.y = MathMax(Num(0), newTop)]

handleResize(element, direction, deltaX, deltaY, startWidth, startHeight, startLeft, startTop) ==
    LET newWidth ==
            IF "w" \in direction THEN MathMax(Num(20), Minus(startWidth, deltaX))
            ELSE IF "e" \in direction
                 THEN MathMax(Num(20), Plus(startWidth, deltaX))
            ELSE startWidth
        newLeft == IF "w" \in direction THEN Plus(startLeft, deltaX)
                   ELSE startLeft
        newHeight ==
            IF "n" \in direction THEN MathMax(Num(20), Minus(startHeight, deltaY))
            ELSE IF "s" \in direction
                 THEN MathMax(Num(20), Plus(startHeight, deltaY))
            ELSE startHeight
        newTop == IF "n" \in direction THEN Plus(startTop, deltaY)
                  ELSE startTop
    IN  [element EXCEPT !.width = newWidth, !.height = newHeight,
                        !.x = MathMax(Num(0), newLeft),
                        !.y = MathMax(Num(0), newTop)]

\* startResize.onMouseMove
resizeMouseMove(e, p) ==
    IF ~e.isResizing THEN e
    ELSE LET l == e.listener
             deltaX == dragDelta(l.startX, p[1], e.zoomLevel)
             deltaY == dragDelta(l.startY, p[2], e.zoomLevel)
             Resize(el) ==
                 handleResize(el, l.direction, deltaX, deltaY, l.startWidth,
                              l.startHeight, l.startLeft, l.startTop)
         IN  [e EXCEPT !.slides =
                          MapHeld(@, [el \in ElementsOf(@) |-> Resize(el)])]

\* startResize.onMouseUp
resizeMouseUp(e) ==
    saveState([e EXCEPT !.isResizing = FALSE,
                        !.slides = MapHeld(@, Release(@)),
                        !.listener = NoListener])

\* new PowerPointEditor(initialSlides): the constructor, then init()
Construct(initialSlides) ==
    saveState([slides |-> initialSlides, currentSlide |-> 0,
               selectedElement |-> null, zoomLevel |-> Num(1),
               isDragging |-> FALSE, isResizing |-> FALSE,
               dragStart |-> [x |-> 0, y |-> 0],
               elementStart |-> [x |-> Num(0), y |-> Num(0)],
               history |-> <<>>, historyIndex |-> -1, clipboard |-> null,
               listener |-> NoListener, interleaved |-> FALSE])

----------------------------------------------------------------------------
(* The inline editor of editor/powerpoint.py: the script's globals slides, *)
(* currentSlide, selectedElement and zoomLevel are the fields of `inline`. *)
(* Every click outside an element's div bubbles to document.body.onclick,  *)
(* which empties the selection.                                            *)

InlineElement(type, id, x, y, w, h) ==
    [type |-> type, id |-> id, x |-> Num(x), y |-> Num(y),
     width |-> Num(w), height |-> Num(h)]

\* powerpoint_editor(slides = None)
InlineDefault ==
    << [id |-> <<"slide", 1>>, title |-> "Title Slide",
        elements |-> << InlineElement("text", <<"text", "1">>, 100, 100, 600, 80) >>] >>

InlineStart(initial) ==
    [slides |-> initial, currentSlide |-> 0, selectedElement |-> null,
     zoomLevel |-> Num(1)]

\* def powerpoint_editor(slides=None, ...): the page's script starts from
\* json.dumps(slides) and the function returns `slides`, its own argument or
\* the default deck, right after components.html; nothing comes back from
\* the page.
powerpoint_editor(slidesArg) ==
    IF slidesArg = null THEN InlineDefault ELSE slidesArg

InlineBodyOnclick(g) == [g EXCEPT !.selectedElement = null]

\* div.onclick of a thumbnail, then the body's
InlineThumbOnclick(g, idx) == InlineBodyOnclick([g EXCEPT !.currentSlide = idx])

\* div.onclick of an element: e.stopPropagation()
InlineElementOnclick(g, id) == [g EXCEPT !.selectedElement = id]

InlinePush(g, el) ==
    InlineBodyOnclick(
        [g EXCEPT !.slides[g.currentSlide + 1].elements = Append(@, el)])

InlineAddText(g, r) ==
    InlinePush(g, InlineElement("text", <<"text", r>>, 120, 120, 200, 50))

InlineAddImage(g, url, r) ==
    IF ~url THEN InlineBodyOnclick(g)
    ELSE InlinePush(g, InlineElement("image", <<"img", r>>, 150, 150, 200, 120))

InlineAddShape(g, r) ==
    InlinePush(g, InlineElement("shape", <<"shape", r>>, 200, 200, 120, 80))

InlineDeleteElement(g) ==
    IF g.selectedElement = null THEN InlineBodyOnclick(g)
    ELSE LET Keep(el) == el.id # g.selectedElement
         IN  InlineBodyOnclick(
                [g EXCEPT !.slides[g.currentSlide + 1].elements =
                              SelectSeq(@, Keep)])

\* id: 'slide_' + (slides.length + 1)
InlineAddSlide(g) ==
    LET pushed == Append(g.slides,
                     [id |-> <<"slide", Len(g.slides) + 1>>,
                      title |-> "New Slide", elements |-> <<>>])
    IN  InlineBodyOnclick(
            [g EXCEPT !.slides = pushed, !.currentSlide = Len(pushed) - 1])

InlineRemoveSlide(g) ==
    IF Len(g.slides) <= 1 THEN InlineBodyOnclick(g)
    ELSE InlineBodyOnclick(
            [g EXCEPT !.slides = SpliceOut(@, g.currentSlide),
                      !.currentSlide = IF g.currentSlide - 1 > 0
                                       THEN g.currentSlide - 1 ELSE 0])

\* function setZoom(level) of the page's script
InlineSetZoom(g, level) ==
    [g EXCEPT !.zoomLevel = MathMax(<<1, 5>>, MathMin(level, Num(3)))]

\* the zoom buttons' onclick, then the body's
InlineZoomIn(g) ==
    InlineBodyOnclick(InlineSetZoom(g, Times(g.zoomLevel, <<6, 5>>)))

InlineZoomOut(g) ==
    InlineBodyOnclick(InlineSetZoom(g, Over(g.zoomLevel, <<6, 5>>)))

InlineZoomFit(g, layout) ==
    LET scaleW == Over(Num(layout.wrap[1]), Num(layout.canvas[1]))
        scaleH == Over(Num(layout.wrap[2]), Num(layout.canvas[2]))
    IN  InlineBodyOnclick(
            InlineSetZoom(g, MathMin(MathMin(scaleW, scaleH), Num(1))))

----------------------------------------------------------------------------
(* The editor as a state machine: one action per event handler *)

this ==
    [slides |-> slides, currentSlide |-> currentSlide,
     selectedElement |-> selectedElement, zoomLevel |-> zoomLevel,
     isDragging |-> isDragging, isResizing |-> isResizing,
     dragStart |-> dragStart, elementStart |-> elementStart,
     history |-> history, historyIndex |-> historyIndex,
     clipboard |-> clipboard, listener |-> listener,
     interleaved |-> interleaved]

InGesture == listener.kind # "none"

\* the elements renderCanvas drew: none when it threw for lack of a slide
CurrentElements ==
    IF HasCurrent(this) THEN slides[currentSlide + 1].elements ELSE <<>>

\* the clipboard chain copy, paste, undo, copy, ... moves an element by
\* (+20,+20) each round without growing the history: the model stops it
ClipboardBounded(e) ==
    IF e.clipboard = null THEN TRUE
    ELSE Leq(e.clipboard.x, Num(MaxClipboardX))

SceneBound(e) ==
    /\ Len(e.history) <= MaxHistory
    /\ Len(e.slides) <= MaxSlides
    /\ \A i \in DOMAIN e.slides : Len(e.slides[i].elements) <= MaxElements
    /\ ClipboardBounded(e)

\* no other handler runs between a gesture's mousedown and its mouseup
GestureBound(e) ==
    /\ ~e.interleaved
    /\ Len(e.history) <= GestureHistory
    /\ e.listener.kind # "none" => e.historyIndex + 2 <= GestureHistory
    /\ Len(e.slides) <= MaxSlides
    /\ \A i \in DOMAIN e.slides : Len(e.slides[i].elements) <= MaxElements
    /\ ClipboardBounded(e)

\* the history is left to the program's own cap
HistoryBound(e) ==
    /\ Len(e.slides) <= MaxSlides
    /\ \A i \in DOMAIN e.slides : Len(e.slides[i].elements) <= MaxElements

\* the states a specification keeps
\* zoom levels are followed while their fraction stays small
ZoomBound(level) ==
    /\ Abs(level[1]) <= MaxZoomTerm
    /\ Abs(level[2]) <= MaxZoomTerm

Bound(e) ==
    IF scope = "scene" THEN SceneBound(e)
    ELSE IF scope = "history" THEN HistoryBound(e)
    ELSE IF scope = "zoom" THEN ZoomBound(e.zoomLevel)
    ELSE GestureBound(e)

Becomes(e) ==
    /\ Bound(e)
    /\ slides' = e.slides
    /\ currentSlide' = e.currentSlide
    /\ selectedElement' = e.selectedElement
    /\ zoomLevel' = e.zoomLevel
    /\ isDragging' = e.isDragging
    /\ isResizing' = e.isResizing
    /\ dragStart' = e.dragStart
    /\ elementStart' = e.elementStart
    /\ history' = e.history
    /\ historyIndex' = e.historyIndex
    /\ clipboard' = e.clipboard
    /\ listener' = e.listener
    /\ interleaved' = e.interleaved
    /\ inline' = inline
    /\ csv' = csv
    /\ scope' = scope

Is(e) ==
    /\ slides = e.slides
    /\ currentSlide = e.currentSlide
    /\ selectedElement = e.selectedElement
    /\ zoomLevel = e.zoomLevel
    /\ isDragging = e.isDragging
    /\ isResizing = e.isResizing
    /\ dragStart = e.dragStart
    /\ elementStart = e.elementStart
    /\ history = e.history
    /\ historyIndex = e.historyIndex
    /\ clipboard = e.clipboard
    /\ listener = e.listener
    /\ interleaved = e.interleaved

\* a handler that is no part of the gesture in progress, if there is one
Handled(e) == Becomes([e EXCEPT !.interleaved = InGesture])

\* document.body.onclick: a click on a toolbar button or a thumbnail bubbles
\* to the body after the button's own handler, and its target is no element
bodyOnclick(e) == clearSelection(e)

\* div.onclick of an element of the canvas
ClickElement ==
    \E j \in DOMAIN CurrentElements :
        Handled(selectElement(this, CurrentElements[j].id))

\* document.body.onclick outside every element
ClickCanvas == Handled(bodyOnclick(this))

\* div.onclick of a slide thumbnail
ClickSlideThumb ==
    \E idx \in 0 .. Len(slides) - 1 :
        Handled(bodyOnclick(selectSlide(this, idx)))

AddText ==
    \E r \in generateId : Handled(bodyOnclick(addTextElement(this, r)))

AddImage ==
    \E url \in BOOLEAN, r \in generateId :
        Handled(bodyOnclick(addImageElement(this, url, r)))

AddShape ==
    \E r \in generateId : Handled(bodyOnclick(addShapeElement(this, r)))

\* the toolbar button, or the Delete key
DeleteElement == Handled(deleteSelectedElement(this))

AddSlide ==
    \E r \in generateId : Handled(bodyOnclick(addSlide(this, r)))

RemoveSlide == Handled(bodyOnclick(removeSlide(this)))

DuplicateSlide ==
    \E r \in generateId, rs \in [DOMAIN CurrentElements -> generateId] :
        Handled(bodyOnclick(duplicateSlide(this, r, rs)))

SetZoom ==
    \E level \in ZoomInputs : Handled(bodyOnclick(setZoom(this, level)))

\* handleKeyboardShortcuts: Ctrl/Cmd + z, y, c, v
Undo == Handled(undo(this))

Redo == Handled(redo(this))

Copy == Handled(copy(this))

Paste == \E r \in generateId : Handled(paste(this, r))

\* div.onmousedown of an element of the canvas
MouseDownElement ==
    /\ ~InGesture
    /\ \E j \in DOMAIN CurrentElements :
          Becomes([startDrag(this, j, PointerDown) EXCEPT !.interleaved = FALSE])

\* handle.onmousedown of a handle the element's div carries
MouseDownHandle ==
    /\ ~InGesture
    /\ \E j \in DOMAIN CurrentElements :
          \E direction \in ResizeHandles(this, CurrentElements[j]) :
              Becomes([startResize(this, j, direction, PointerDown)
                          EXCEPT !.interleaved = FALSE])

\* the document's mousemove listener of the gesture in progress
MouseMove ==
    \E p \in PointerMoves :
        \/ listener.kind = "drag" /\ Becomes(dragMouseMove(this, p))
        \/ listener.kind = "resize" /\ Becomes(resizeMouseMove(this, p))

\* the document's mouseup listener of the gesture in progress
MouseUp ==
    \/ /\ listener.kind = "drag"
       /\ Becomes([dragMouseUp(this) EXCEPT !.interleaved = FALSE])
    \/ /\ listener.kind = "resize"
       /\ Becomes([resizeMouseUp(this) EXCEPT !.interleaved = FALSE])

----------------------------------------------------------------------------
(* Spec: the scene model, the selection and the history *)

\* window.initialSlides is undefined: the default deck
Start(initialSlides, bound) ==
    /\ Is(Construct(initialSlides))
    /\ inline = InlineStart(InlineDefault)
    /\ csv = null
    /\ scope = bound

Init == Start(getDefaultSlides, "scene")

Next ==
    \/ ClickElement \/ ClickCanvas
    \/ ClickSlideThumb
    \/ AddText \/ AddImage \/ AddShape
    \/ DeleteElement
    \/ AddSlide \/ RemoveSlide
    \/ DuplicateSlide
    \/ Undo \/ Redo
    \/ Copy \/ Paste

Spec == Init /\ [][Next]_vars

----------------------------------------------------------------------------
(* SpecGesture: drag and resize gestures on a deck the host passed *)

\* a deck of the host: the default slide with a shape where addShapeElement
\* puts one
ShapeDeck ==
    << [getDefaultSlides[1] EXCEPT
          !.elements = Append(@, Shape(<<"shape", "1">>, 200, 200, 120, 80))] >>

InitGesture ==
    \E initialSlides \in {getDefaultSlides, ShapeDeck} :
        Start(initialSlides, "gesture")

NextGesture ==
    \/ ClickElement \/ ClickCanvas
    \/ SetZoom
    \/ Undo \/ Redo
    \/ MouseDownElement \/ MouseDownHandle
    \/ MouseMove \/ MouseUp

SpecGesture == InitGesture /\ [][NextGesture]_vars

----------------------------------------------------------------------------
(* SpecFloors: gestures at zoom 1 together with the operations that create *)
(* elements                                                                *)

NextFloors ==
    \/ ClickElement \/ ClickCanvas
    \/ AddShape \/ Copy \/ Paste
    \/ DuplicateSlide
    \/ Undo \/ Redo
    \/ MouseDownElement \/ MouseDownHandle
    \/ MouseMove \/ MouseUp

InitFloors == Start(getDefaultSlides, "gesture")

SpecFloors == InitFloors /\ [][NextFloors]_vars

----------------------------------------------------------------------------
(* SpecHistory: the history at its cap. The editor starts after a number   *)
(* of completed drags of the title, each of which pushed one snapshot      *)
(* with the title 24 units further right and 12 further down.              *)

\* one completed drag of the title by the pointer move (24, 12)
OneDrag(e) ==
    LET down == startDrag(e, 1, PointerDown)
        moved == dragMouseMove(down, <<PointerDown[1] + 24,
                                       PointerDown[2] + 12>>)
    IN  dragMouseUp(moved)

\* the default deck with its title dragged k times
DraggedDeck(k) ==
    [getDefaultSlides EXCEPT ![1].elements[1].x = Num(100 + 24 * k),
                             ![1].elements[1].y = Num(100 + 12 * k)]

\* the editor after n such drags: OneDrag(AfterDrags(k)) = AfterDrags(k + 1)
AfterDrags(n) ==
    [Construct(getDefaultSlides) EXCEPT
        !.slides = DraggedDeck(n),
        !.dragStart = IF n = 0 THEN @
                      ELSE [x |-> PointerDown[1], y |-> PointerDown[2]],
        !.elementStart = IF n = 0 THEN @
                         ELSE [x |-> Num(100 + 24 * (n - 1)),
                               y |-> Num(100 + 12 * (n - 1))],
        !.history = [k \in 1 .. n + 1 |-> DraggedDeck(k - 1)],
        !.historyIndex = n]

InitHistory ==
    \E n \in HistoryCap - 3 .. HistoryCap - 1 :
        /\ \A k \in 0 .. n - 1 : OneDrag(AfterDrags(k)) = AfterDrags(k + 1)
        /\ Is(AfterDrags(n))
        /\ inline = InlineStart(InlineDefault)
        /\ csv = null
        /\ scope = "history"

NextHistory ==
    \/ ClickElement \/ ClickCanvas
    \/ AddText
    \/ Undo \/ Redo

SpecHistory == InitHistory /\ [][NextHistory]_vars

----------------------------------------------------------------------------
(* SpecInline: the inline editor of editor/powerpoint.py *)

RECURSIVE ElementCount(_)
ElementCount(ss) ==
    IF ss = <<>> THEN 0 ELSE Len(Head(ss).elements) + ElementCount(Tail(ss))

InlineBound(g) ==
    /\ Len(g.slides) <= MaxSlides
    /\ ElementCount(g.slides) <= MaxElements
    /\ ZoomBound(g.zoomLevel)

InlineBecomes(g) ==
    InlineBound(g) /\ inline' = g /\ UNCHANGED <<coreVars, csv, scope>>

InlineElements == inline.slides[inline.currentSlide + 1].elements

InlineClickThumb ==
    \E idx \in 0 .. Len(inline.slides) - 1 :
        InlineBecomes(InlineThumbOnclick(inline, idx))

InlineClickElement ==
    \E j \in DOMAIN InlineElements :
        InlineBecomes(InlineElementOnclick(inline, InlineElements[j].id))

InlineClickBody == InlineBecomes(InlineBodyOnclick(inline))

InlineClickAddText ==
    \E r \in generateId : InlineBecomes(InlineAddText(inline, r))

InlineClickAddImage ==
    \E url \in BOOLEAN, r \in generateId :
        InlineBecomes(InlineAddImage(inline, url, r))

InlineClickAddShape ==
    \E r \in generateId : InlineBecomes(InlineAddShape(inline, r))

InlineClickDelete == InlineBecomes(InlineDeleteElement(inline))

InlineClickAddSlide == InlineBecomes(InlineAddSlide(inline))

InlineClickRemoveSlide == InlineBecomes(InlineRemoveSlide(inline))

NextInline ==
    \/ InlineClickThumb \/ InlineClickElement \/ InlineClickBody
    \/ InlineClickAddText \/ InlineClickAddImage \/ InlineClickAddShape
    \/ InlineClickDelete \/ InlineClickAddSlide \/ InlineClickRemoveSlide

SpecInline == Init /\ [][NextInline]_vars

----------------------------------------------------------------------------
(* The zoom controls of both editors *)

\* the zoom buttons of the class: the click bubbles to the body
ZoomIn == Handled(bodyOnclick(zoomIn(this)))

ZoomOut == Handled(bodyOnclick(zoomOut(this)))

ZoomFit == \E layout \in Layouts : Handled(bodyOnclick(zoomFit(this, layout)))

Zoom100 == Handled(bodyOnclick(setZoom(this, Num(1))))

\* editorInstance.setZoom(level) called with a level of the caller's
SetZoomLevel == \E level \in ZoomLevels : Handled(setZoom(this, level))

\* the zoom buttons of the page's script
InlineClickZoomIn == InlineBecomes(InlineZoomIn(inline))

InlineClickZoomOut == InlineBecomes(InlineZoomOut(inline))

InlineClickZoomFit ==
    \E layout \in Layouts : InlineBecomes(InlineZoomFit(inline, layout))

InitZoom == Start(getDefaultSlides, "zoom")

NextZoom ==
    \/ ZoomIn \/ ZoomOut \/ ZoomFit \/ Zoom100 \/ SetZoomLevel
    \/ InlineClickZoomIn \/ InlineClickZoomOut \/ InlineClickZoomFit

SpecZoom == InitZoom /\ [][NextZoom]_vars

----------------------------------------------------------------------------
(* The CSV editor of editor/csv.py: the script's globals csvHeaders and    *)
(* csvData, and the file its last download wrote.  A string is the         *)
(* sequence of its characters.                                             *)

\* most rows of the grid
MaxCsvRows == 1

\* the strings a header or a cell holds: empty, plain, with a comma, with
\* double quotes
CsvFields == {<<>>, <<"a">>, <<"a", ",">>, <<"\"">>, <<"a", "\"", "\"">>}

\* value || '' written to csvData[row][col], inside the index tests
updateCell(g, row, col, value) ==
    IF row \in DOMAIN g.csvData /\ col \in DOMAIN g.csvData[row]
    THEN [g EXCEPT !.csvData[row][col] = value]
    ELSE g

\* cell.replace(/"/g, '""')
RECURSIVE replaceQuotes(_)
replaceQuotes(cell) ==
    IF cell = <<>> THEN <<>>
    ELSE (IF Head(cell) = "\"" THEN <<"\"", "\"">> ELSE <<Head(cell)>>)
             \o replaceQuotes(Tail(cell))

\* fields.join(',') + '\n'
RECURSIVE csvLine(_)
csvLine(fields) ==
    IF fields = <<>> THEN <<"\n">>
    ELSE IF Len(fields) = 1 THEN fields[1] \o <<"\n">>
    ELSE fields[1] \o <<",">> \o csvLine(Tail(fields))

\* csvContent += ... for the header row and then for each row of csvData
RECURSIVE csvLines(_)
csvLines(rows) ==
    IF rows = <<>> THEN <<>> ELSE csvLine(Head(rows)) \o csvLines(Tail(rows))

\* the content of the Blob exportCSV downloads as data.csv
exportCSV(csvHeaders, csvData) ==
    LET Quote(h) == <<"\"">> \o h \o <<"\"">>
        Row(row) == [k \in DOMAIN row |-> Quote(row[k])]
    IN  csvLines(<<Row(csvHeaders)>> \o [r \in DOMAIN csvData |-> Row(csvData[r])])

\* the content of the Blob saveData downloads as data_<time>.csv
saveData(csvHeaders, csvData) ==
    LET Quote(h) == <<"\"">> \o replaceQuotes(h) \o <<"\"">>
        Row(row) == [k \in DOMAIN row |-> Quote(row[k])]
    IN  csvLines(<<Row(csvHeaders)>> \o [r \in DOMAIN csvData |-> Row(csvData[r])])

\* input.oninput of a cell
UpdateCell ==
    /\ \E row \in DOMAIN csv.csvData, col \in DOMAIN csv.csvHeaders :
          \E value \in CsvFields : csv' = updateCell(csv, row, col, value)
    /\ UNCHANGED <<coreVars, inline, scope>>

\* the Export CSV button
ExportCSV ==
    /\ csv' = [csv EXCEPT !.download =
                  [by |-> "exportCSV",
                   content |-> exportCSV(csv.csvHeaders, csv.csvData)]]
    /\ UNCHANGED <<coreVars, inline, scope>>

\* the Save button
SaveData ==
    /\ csv' = [csv EXCEPT !.download =
                  [by |-> "saveData",
                   content |-> saveData(csv.csvHeaders, csv.csvData)]]
    /\ UNCHANGED <<coreVars, inline, scope>>

\* theta_csv_editor(data, headers): a grid of two columns the host passes
InitCsv ==
    /\ Is(Construct(getDefaultSlides))
    /\ inline = InlineStart(InlineDefault)
    /\ scope = "scene"
    /\ \E headers \in [1 .. 2 -> CsvFields \ {<<>>}], n \in 0 .. MaxCsvRows :
          csv = [csvHeaders |-> headers,
                 csvData |-> [r \in 1 .. n |-> <<<<>>, <<>>>>],
                 download |-> null]

NextCsv == UpdateCell \/ ExportCSV \/ SaveData

SpecCsv == InitCsv /\ [][NextCsv]_vars

----------------------------------------------------------------------------
(* Properties of the slide list and of the history (Spec)                  *)

AllElementIds(ss) ==
    UNION {{ss[i].elements[j].id : j \in DOMAIN ss[i].elements} :
              i \in DOMAIN ss}

\* C1: the live presentation always holds at least one slide: no sequence
\* of removals (with additions, duplications, undo and redo between them)
\* brings the slide list to length 0.
C1_AtLeastOneSlide == Len(slides) >= 1

\* a removal took the presentation from two slides to one
C1_Witness ==
    /\ Len(slides) = 1
    /\ historyIndex >= 1
    /\ Len(history[historyIndex]) = 2
    /\ Len(history[historyIndex + 1]) = 1

RECURSIVE RemoveTimes(_, _)
RemoveTimes(e, n) == IF n = 0 THEN e ELSE RemoveTimes(removeSlide(e), n - 1)

\* C2: from a presentation of N slides, N - 1 calls of removeSlide leave
\* exactly one slide and the N-th call changes nothing at all (no slide, no
\* current slide index, no selection, no history entry, no history index).
C2_RemoveAllButOne ==
    LET last == RemoveTimes(this, Len(slides) - 1)
    IN  Len(last.slides) = 1 /\ removeSlide(last) = last

\* the operations that end in saveState, applied to the editor e
Mutations(e) ==
    {addTextElement(e, r) : r \in generateId}
        \cup {addImageElement(e, TRUE, r) : r \in generateId}
        \cup {addShapeElement(e, r) : r \in generateId}
        \cup {paste(e, r) : r \in generateId}
        \cup {addSlide(e, r) : r \in generateId}
        \cup {duplicateSlide(e, r, rs) :
                r \in generateId, rs \in [1 .. MaxElements -> generateId]}
        \cup {deleteSelectedElement(e), removeSlide(e)}

Snapshotted(e) == {m \in Mutations(e) : m.history # e.history
                                          \/ m.historyIndex # e.historyIndex}

\* C3: when redo is available (one or more undos happened), a mutation that
\* snapshots discards the undone snapshots: afterwards redo changes nothing,
\* the history index is the last position of the history, the history is
\* the kept prefix plus the one new snapshot, and a single undo gives back
\* the slides the presentation had right before the mutation.
C3_HistoryTruncation ==
    historyIndex < Len(history) - 1 =>
        \A m \in Snapshotted(this) :
            /\ redo(m) = m
            /\ m.historyIndex = Len(m.history) - 1
            /\ Len(m.history) = historyIndex + 2
            /\ SubSeq(m.history, 1, historyIndex + 1)
                   = SubSeq(history, 1, historyIndex + 1)
            /\ undo(m).slides = DeepCopy(slides)

\* the clipboard holds a copy of the pasted element text_a, whose snapshot
\* was undone and then discarded by a later mutation
C3_Witness ==
    /\ clipboard # null
    /\ clipboard.id = <<"text", "a">>
    /\ historyIndex >= 1
    /\ historyIndex = Len(history) - 1
    /\ \A k \in DOMAIN history : <<"text", "a">> \notin AllElementIds(history[k])

\* C4: undo with the history index at 0 (or below) and redo with the index
\* at the last position (or beyond) change nothing: not the slides, not the
\* index, not the history.
C4_UndoRedoBoundaries ==
    /\ historyIndex <= 0 => undo(this) = this
    /\ historyIndex >= Len(history) - 1 => redo(this) = this

\* in the middle of a drag that moved the element, at history index 0
C4_Witness ==
    /\ historyIndex = 0
    /\ listener.kind = "drag"
    /\ DeepCopy(slides) # history[1]

----------------------------------------------------------------------------
(* Properties of the gestures (SpecGesture, SpecFloors)                    *)

\* the elements a gesture's closure writes to
HeldElements(ss) ==
    UNION {{ss[i].elements[j] : j \in {k \in DOMAIN ss[i].elements :
                                          ss[i].elements[k].held}} :
              i \in DOMAIN ss}

\* the slides with the dragged element back at its place of the mousedown
BeforeDrag ==
    LET Back(el) == [el EXCEPT !.x = elementStart.x, !.y = elementStart.y]
    IN  DeepCopy(MapHeld(slides, [el \in ElementsOf(slides) |-> Back(el)]))

\* the shape at (200, 200), zoom 2, dragged by (24, 12) pixels and undone
DragScenario ==
    \A r \in generateId :
        LET added   == addShapeElement(Construct(getDefaultSlides), r)
            zoomed  == setZoom(added, Num(2))
            down    == startDrag(zoomed, 2, PointerDown)
            moved   == dragMouseMove(down, <<PointerDown[1] + 24,
                                             PointerDown[2] + 12>>)
            undone  == undo(dragMouseUp(moved))
            Shape1(e) == e.slides[1].elements[2]
        IN  /\ \A e \in {added, moved, undone} : Len(e.slides[1].elements) = 2
            /\ Shape1(added).x = Num(200) /\ Shape1(added).y = Num(200)
            /\ Shape1(moved).x = Num(212) /\ Shape1(moved).y = Num(206)
            /\ Shape1(undone).x = Num(200) /\ Shape1(undone).y = Num(200)

C6_ZoomInvariantDrag ==
    listener.kind = "drag" =>
        \A p \in PointerMoves :
            LET dx == p[1] - dragStart.x
                dy == p[2] - dragStart.y
                moved == HeldElements(dragMouseMove(this, p).slides)
            IN  /\ Cardinality(moved) = 1
                /\ \A el \in moved :
                      /\ Leq(Num(0), Plus(Times(elementStart.x, zoomLevel), Num(dx)))
                            => Times(Minus(el.x, elementStart.x), zoomLevel) = Num(dx)
                      /\ Leq(Num(0), Plus(Times(elementStart.y, zoomLevel), Num(dy)))
                            => Times(Minus(el.y, elementStart.y), zoomLevel) = Num(dy)

\* at zoom 1/2, 24 pixels of the pointer are 48 units of the canvas
C6_Witness ==
    /\ listener.kind = "drag"
    /\ zoomLevel = <<1, 2>>
    /\ \E el \in HeldElements(slides) :
          /\ el.x = Plus(elementStart.x, Num(48))
          /\ el.y = Plus(elementStart.y, Num(24))

Floors(ss) ==
    \A i \in DOMAIN ss : \A j \in DOMAIN ss[i].elements :
        LET el == ss[i].elements[j]
        IN  /\ Leq(Num(0), el.x) /\ Leq(Num(0), el.y)
            /\ Leq(Num(20), el.width) /\ Leq(Num(20), el.height)

\* C7: after any sequence of drags, resizes, additions, pastes, slide
\* duplications, undos and redos every element of the presentation, and of
\* every snapshot an undo or redo can load, has x >= 0, y >= 0,
\* width >= 20 and height >= 20.
C7_GeometryFloors ==
    Floors(slides) /\ \A k \in DOMAIN history : Floors(history[k])

\* a resize by the south-west handle stopped by the floors of x and height
C7_Witness ==
    /\ listener.kind = "resize"
    /\ \E el \in HeldElements(slides) :
          /\ el.x = Num(0) /\ Leq(Num(0), el.y)
          /\ el.height = Num(20) /\ Leq(Num(20), el.width)
          /\ Minus(listener.startHeight, Num(20)) # Num(0)

----------------------------------------------------------------------------
(* Properties of the identifiers and of the selection                      *)

SlideIds(ss) == {ss[i].id : i \in DOMAIN ss}

\* C8: duplicateSlide gives the copy an id that no other slide of the
\* presentation has, and gives the copy's elements ids that differ from one
\* another and from the id of every other element of the presentation.
C8_DuplicateIdsFresh ==
    HasCurrent(this) =>
        \A r \in generateId, rs \in [1 .. MaxElements -> generateId] :
            LET duplicated == duplicateSlide(this, r, rs).slides
                twin == duplicated[currentSlide + 2]
                others == SpliceOut(duplicated, currentSlide + 1)
                ids == {twin.elements[j].id : j \in DOMAIN twin.elements}
            IN  /\ twin.id \notin SlideIds(others)
                /\ Cardinality(ids) = Len(twin.elements)
                /\ ids \cap AllElementIds(others) = {}

\* C9: in every reachable state no two slides of a presentation have the
\* same id, in the inline editor and in the class-based one.
C9_SlideIdsUnique ==
    /\ Cardinality(SlideIds(inline.slides)) = Len(inline.slides)
    /\ Cardinality(SlideIds(slides)) = Len(slides)

\* the elements of the current slide whose id is the selection
Selected ==
    {j \in DOMAIN CurrentElements : CurrentElements[j].id = selectedElement}

\* C10: in every reachable state the selection is empty or is the id of
\* exactly one element of the current slide.
C10_SelectionScoped ==
    selectedElement = null \/ Cardinality(Selected) = 1

----------------------------------------------------------------------------
(* Properties of the current slide, the history cap and the clipboard      *)

\* C11: in every reachable state the current-slide index names a slide,
\* 0 <= currentSlide < number of slides, so that renderCanvas finds
\* this.slides[this.currentSlide] after every action, undo and redo included.
C11_CurrentSlideInRange == 0 <= currentSlide /\ currentSlide < Len(slides)

\* C12: in every reachable state the history holds between 1 and 50
\* snapshots and the history index is a position of it,
\* 0 <= historyIndex <= history.length - 1.
C12_HistoryBounds ==
    /\ 1 <= Len(history) /\ Len(history) <= HistoryCap
    /\ 0 <= historyIndex /\ historyIndex <= Len(history) - 1

\* the history is full, its oldest snapshot was evicted, and every
\* snapshot was undone
C12_Witness ==
    /\ Len(history) = HistoryCap
    /\ historyIndex = 0
    /\ history[1] = DraggedDeck(1)

\* the undos that change something, counted from the editor e
RECURSIVE CountUndos(_)
CountUndos(e) ==
    LET undone == undo(e)
    IN  IF undone = e THEN 0 ELSE 1 + CountUndos(undone)

\* C13: a snapshot pushed while the history holds 50 snapshots with the
\* index on the last one drops exactly the oldest: the other 49 keep their
\* order, the new snapshot is last, the index is on it, and 49 undos are
\* possible from there, no more.
C13_HistoryEviction ==
    (Len(history) = HistoryCap /\ historyIndex = HistoryCap - 1) =>
        \A m \in Snapshotted(this) :
            /\ Len(m.history) = HistoryCap
            /\ SubSeq(m.history, 1, HistoryCap - 1) = Tail(history)
            /\ m.history[HistoryCap] = DeepCopy(m.slides)
            /\ m.historyIndex = HistoryCap - 1
            /\ CountUndos(m) = HistoryCap - 1

\* the history is full with the index on a snapshot of the added text, and
\* the snapshot of the default deck is gone
C13_Witness ==
    /\ Len(history) = HistoryCap
    /\ historyIndex = HistoryCap - 1
    /\ history[1] = DraggedDeck(1)
    /\ Len(history[HistoryCap][1].elements) = 2

\* the pasted element of p, given that paste pushed one on the current slide
Pasted(p) ==
    LET elements == p.slides[p.currentSlide + 1].elements
    IN  elements[Len(elements)]

\* C14: paste with a non-empty clipboard appends to the current slide exactly
\* one new element, equal to the clipboard element except for its id, which
\* differs from every id already on that slide, and for its position, which
\* is the clipboard element's plus (20, 20); the new element is the
\* selection; the clipboard, the elements that were there and the other
\* slides are unchanged.
C14_PasteAppendsFreshCopy ==
    clipboard # null =>
        \A r \in generateId :
            LET p == paste(this, r)
            IN  /\ HasCurrent(this)
                /\ p.currentSlide = currentSlide
                /\ Len(p.slides) = Len(slides)
                /\ \A i \in DOMAIN slides :
                      i # currentSlide + 1 => p.slides[i] = slides[i]
                /\ Len(p.slides[currentSlide + 1].elements)
                       = Len(slides[currentSlide + 1].elements) + 1
                /\ SubSeq(p.slides[currentSlide + 1].elements, 1,
                          Len(slides[currentSlide + 1].elements))
                       = slides[currentSlide + 1].elements
                /\ Pasted(p) = [clipboard EXCEPT
                                   !.id = Pasted(p).id,
                                   !.x = Plus(clipboard.x, Num(20)),
                                   !.y = Plus(clipboard.y, Num(20))]
                /\ \A j \in DOMAIN slides[currentSlide + 1].elements :
                      slides[currentSlide + 1].elements[j].id # Pasted(p).id
                /\ p.selectedElement = Pasted(p).id
                /\ p.clipboard = clipboard

\* C15: copy with a non-empty selection completes and leaves in the clipboard
\* a copy of the selected element of the current slide; copy with an empty
\* selection leaves the clipboard unchanged; and no step other than such a
\* copy (drag, resize, delete, undo of the original included) changes the
\* clipboard.
C15_CopyIsDeepCopy ==
    /\ [](IF selectedElement = null THEN copy(this) = this
          ELSE /\ FindSelected(this) # null
               /\ copy(this).clipboard = CopyElement(FindSelected(this))
               /\ copy(this).clipboard.id = selectedElement)
    /\ [][clipboard' # clipboard =>
              /\ selectedElement # null
              /\ FindSelected(this) # null
              /\ clipboard' = CopyElement(FindSelected(this))]_vars

\* C16: paste on an empty clipboard is a no-op: slides, current slide,
\* selection, history, history index and every other field of the editor
\* are what they were, whatever id generateId would have drawn.
C16_PasteEmptyClipboard ==
    clipboard = null => \A r \in generateId : paste(this, r) = this

C16_Witness ==
    /\ clipboard = null
    /\ selectedElement # null
    /\ historyIndex >= 1
    /\ historyIndex < Len(history) - 1

----------------------------------------------------------------------------
(* Properties of the component boundary, of import and of zoom             *)

\* C17: the value powerpoint_editor hands back to the host equals the
\* presentation the editor currently holds, whatever edits were made since
\* the initial slides were passed in.
C17_SaveReturnsCurrent == powerpoint_editor(null) = inline.slides

\* C18: importing the export of a valid presentation succeeds and leaves the
\* editor with a presentation deeply equal to the exported one; the valid
\* presentations taken are the current one and every snapshot of the history.
C18_ImportExportRoundTrip ==
    \A p \in {slides} \cup {history[h] : h \in DOMAIN history} :
        LET back == importJSON(this, exportJSON([this EXCEPT !.slides = p]))
        IN  /\ back.error = "none"
            /\ back.editor.slides = p

\* a document that is an object, not an array
NotAnArray == [slides |-> getDefaultSlides]

\* an array whose second slide has no elements array
SlideWithoutElements ==
    << getDefaultSlides[1],
       [id |-> <<"slide", "2">>, title |-> getDefaultSlides[1].title] >>

\* C19: importing a document that is not an array, or one with a slide that
\* lacks an elements array, fails with MalformedDocument and leaves the
\* editor (presentation, selection, history and the rest) as it was.
C19_AtomicImport ==
    /\ importJSON(this, NotAnArray).error = "MalformedDocument"
    /\ importJSON(this, NotAnArray).editor = this
    /\ importJSON(this, SlideWithoutElements).error = "MalformedDocument"
    /\ importJSON(this, SlideWithoutElements).editor = this

\* C20: after any sequence of zoomIn, zoomOut, zoomFit and setZoom(level),
\* whatever the level and the measured layout, the zoom factor of the class
\* and the zoom factor of the page's script are between 0.1 and 5.
C20_ZoomRange ==
    /\ Leq(<<1, 10>>, zoomLevel) /\ Leq(zoomLevel, Num(5))
    /\ Leq(<<1, 10>>, inline.zoomLevel) /\ Leq(inline.zoomLevel, Num(5))

C20_Witness ==
    /\ zoomLevel = <<1, 10>>
    /\ inline.zoomLevel = Num(3)

----------------------------------------------------------------------------
(* Properties of the drag and resize gestures                               *)

\* m leaves the history of e as it is
SameHistory(e, m) == m.history = e.history /\ m.historyIndex = e.historyIndex

\* m has exactly one snapshot more than e: the entries up to e's index, then
\* the copy of m's slides, with the index on it
OneSnapshotMore(e, m) ==
    /\ m.historyIndex = e.historyIndex + 1
    /\ Len(m.history) = e.historyIndex + 2
    /\ SubSeq(m.history, 1, e.historyIndex + 1)
           = SubSeq(e.history, 1, e.historyIndex + 1)
    /\ m.history[Len(m.history)] = DeepCopy(m.slides)

\* C21: a gesture adds no snapshot at its mousedown nor at any of its
\* mousemoves, and exactly one snapshot at its mouseup, however many moves
\* came before: in every state a mousedown, and in every state of a gesture
\* in progress (after any number of moves) each mousemove, leaves the
\* history as it is and the mouseup adds exactly one snapshot; and the
\* steps the editor takes do so.
C21_OneSnapshotPerGesture ==
    /\ [](/\ ~InGesture =>
               \A j \in DOMAIN CurrentElements :
                  /\ SameHistory(this, startDrag(this, j, PointerDown))
                  /\ \A direction \in Handles :
                        SameHistory(this, startResize(this, j, direction, PointerDown))
          /\ listener.kind = "drag" =>
               /\ \A p \in PointerMoves : SameHistory(this, dragMouseMove(this, p))
               /\ OneSnapshotMore(this, dragMouseUp(this))
          /\ listener.kind = "resize" =>
               /\ \A p \in PointerMoves : SameHistory(this, resizeMouseMove(this, p))
               /\ OneSnapshotMore(this, resizeMouseUp(this)))
    /\ [][/\ InGesture' => (history' = history /\ historyIndex' = historyIndex)
          /\ (InGesture /\ ~InGesture') =>
                OneSnapshotMore(this, [history |-> history',
                                       historyIndex |-> historyIndex',
                                       slides |-> slides'])]_vars

C21_Witness ==
    /\ ~InGesture
    /\ Len(history) = 2 /\ historyIndex = 1
    /\ Len(slides[1].elements) = 2
    /\ history[1][1].elements[2].width = Num(120)
    /\ history[2][1].elements[2].width = Num(144)
    /\ slides = history[2]

\* C22: in every state of a drag in progress, whatever moves came before
\* (moves stopped by the floor at 0 included), a mousemove at pointer
\* position p leaves the dragged element at
\* (max(0, x0 + dx), max(0, y0 + dy)), where (x0, y0) is the element's
\* position in the presentation as it was at the mousedown (the snapshot the
\* history index is on) and (dx, dy) is p minus the mousedown position,
\* divided by the zoom; nothing else of the presentation changes.
C22_DragPathIndependent ==
    listener.kind = "drag" =>
        /\ HeldElements(slides) # {}
        /\ \A p \in PointerMoves :
              LET after == dragMouseMove(this, p).slides
                  atDown == history[historyIndex + 1]
                  dx == Over(Num(p[1] - PointerDown[1]), zoomLevel)
                  dy == Over(Num(p[2] - PointerDown[2]), zoomLevel)
              IN  \A i \in DOMAIN slides : \A j \in DOMAIN slides[i].elements :
                     slides[i].elements[j].held =>
                        after = [slides EXCEPT
                                    ![i].elements[j].x =
                                        MathMax(Num(0), Plus(atDown[i].elements[j].x, dx)),
                                    ![i].elements[j].y =
                                        MathMax(Num(0), Plus(atDown[i].elements[j].y, dy))]

\* a drag in progress whose last move was stopped by the floor on both axes
C22_Witness ==
    /\ listener.kind = "drag"
    /\ zoomLevel = Num(2)
    /\ \E el \in HeldElements(slides) : el.x = Num(0) /\ el.y = Num(0)

\* C23: in every state of a resize in progress, for each of the 8 handles,
\* a mousemove (dx, dy) canvas units from the mousedown leaves the element
\* with, from its geometry (x0, y0, w0, h0) at the mousedown:
\* width max(20, w0 + dx) for an e handle, max(20, w0 - dx) for a w handle,
\* else w0; height max(20, h0 + dy) for s, max(20, h0 - dy) for n, else h0;
\* x max(0, x0 + dx) for a w handle, else x0; y max(0, y0 + dy) for an n
\* handle, else y0; nothing else of the presentation changes.
C23_ResizeSemantics ==
    listener.kind = "resize" =>
        /\ HeldElements(slides) # {}
        /\ \A p \in PointerMoves \cup {<<410, 280>>, <<900, 900>>, <<400, 300>>} :
              LET after == resizeMouseMove(this, p).slides
                  atDown == history[historyIndex + 1]
                  handle == listener.direction
                  dx == Over(Num(p[1] - PointerDown[1]), zoomLevel)
                  dy == Over(Num(p[2] - PointerDown[2]), zoomLevel)
              IN  \A i \in DOMAIN slides : \A j \in DOMAIN slides[i].elements :
                     LET el0 == atDown[i].elements[j]
                     IN  slides[i].elements[j].held =>
                            after = [slides EXCEPT
                               ![i].elements[j].width =
                                   IF "e" \in handle THEN MathMax(Num(20), Plus(el0.width, dx))
                                   ELSE IF "w" \in handle THEN MathMax(Num(20), Minus(el0.width, dx))
                                   ELSE el0.width,
                               ![i].elements[j].height =
                                   IF "s" \in handle THEN MathMax(Num(20), Plus(el0.height, dy))
                                   ELSE IF "n" \in handle THEN MathMax(Num(20), Minus(el0.height, dy))
                                   ELSE el0.height,
                               ![i].elements[j].x =
                                   IF "w" \in handle THEN MathMax(Num(0), Plus(el0.x, dx))
                                   ELSE el0.x,
                               ![i].elements[j].y =
                                   IF "n" \in handle THEN MathMax(Num(0), Plus(el0.y, dy))
                                   ELSE el0.y]

\* a resize by the north-west handle at zoom 1/2, stopped by the floor of x
\* and y, on the shape of 120 by 80 grown by the 800 and 600 units of the move
C23_Witness ==
    /\ listener.kind = "resize"
    /\ listener.direction = {"n", "w"}
    /\ zoomLevel = <<1, 2>>
    /\ \E el \in HeldElements(slides) :
          /\ el.x = Num(0) /\ el.y = Num(0)
          /\ el.width = Num(920) /\ el.height = Num(680)

\* C24 as stated: in every state of a resize by a handle with w (with n),
\* every mousemove leaves x + width (y + height) at its value of the
\* mousedown, also when the floor of 20 or the floor of 0 is reached.
C24_OppositeEdgeFixed ==
    listener.kind = "resize" =>
        \A p \in PointerMoves \cup {<<410, 280>>, <<900, 900>>, <<400, 300>>} :
            LET after == resizeMouseMove(this, p).slides
                atDown == history[historyIndex + 1]
            IN  \A i \in DOMAIN slides : \A j \in DOMAIN slides[i].elements :
                   slides[i].elements[j].held =>
                      /\ "w" \in listener.direction =>
                            Plus(after[i].elements[j].x, after[i].elements[j].width)
                                = Plus(atDown[i].elements[j].x, atDown[i].elements[j].width)
                      /\ "n" \in listener.direction =>
                            Plus(after[i].elements[j].y, after[i].elements[j].height)
                                = Plus(atDown[i].elements[j].y, atDown[i].elements[j].height)

\* C24 as amended: the same, for the moves that leave the width above 20 and
\* x above 0 (w handles), the height above 20 and y above 0 (n handles).
C24_OppositeEdgeFixedAboveFloors ==
    listener.kind = "resize" =>
        /\ HeldElements(slides) # {}
        /\ \A p \in PointerMoves \cup {<<410, 280>>, <<900, 900>>, <<400, 300>>} :
            LET after == resizeMouseMove(this, p).slides
                atDown == history[historyIndex + 1]
            IN  \A i \in DOMAIN slides : \A j \in DOMAIN slides[i].elements :
                   LET el == after[i].elements[j]
                       el0 == atDown[i].elements[j]
                   IN  slides[i].elements[j].held =>
                          /\ ("w" \in listener.direction
                                /\ ~Leq(el.width, Num(20)) /\ ~Leq(el.x, Num(0)))
                               => Plus(el.x, el.width) = Plus(el0.x, el0.width)
                          /\ ("n" \in listener.direction
                                /\ ~Leq(el.height, Num(20)) /\ ~Leq(el.y, Num(0)))
                               => Plus(el.y, el.height) = Plus(el0.y, el0.height)

\* the shape of 120 by 80 at (200, 200), its north-west handle moved by
\* (24, 12) at zoom 1: at (224, 212) with 96 by 68, both far edges in place
C24_Witness ==
    /\ listener.kind = "resize"
    /\ listener.direction = {"n", "w"}
    /\ \E el \in HeldElements(slides) :
          /\ el.x = Num(224) /\ el.y = Num(212)
          /\ el.width = Num(96) /\ el.height = Num(68)

\* C25: in every state in which a drag is in progress the element being
\* dragged is the selected element.
C25_DragOnSelection ==
    listener.kind = "drag" =>
        /\ HeldElements(slides) # {}
        /\ \A el \in HeldElements(slides) : el.id = selectedElement

\* C26: as the canvas is rendered, the elements whose id is the selection
\* carry the 8 handles nw, ne, sw, se, n, s, w, e and every other element
\* carries none; and every step that begins a resize begins it on an element
\* whose id is the selection, which the step leaves as it is.
C26_ResizeOnSelection ==
    /\ [](/\ Cardinality(Handles) = 8
          /\ \A j \in DOMAIN CurrentElements :
                ResizeHandles(this, CurrentElements[j])
                    = IF CurrentElements[j].id = selectedElement
                      THEN Handles ELSE {})
    /\ [][(~isResizing /\ isResizing') =>
              /\ selectedElement # null
              /\ selectedElement' = selectedElement
              /\ HeldElements(slides') # {}
              /\ \A el \in HeldElements(slides') : el.id = selectedElement]_vars

\* a resize in progress on the selected one of two elements
C26_Witness ==
    /\ isResizing
    /\ Len(slides[1].elements) = 2
    /\ slides[1].elements[1].held
    /\ slides[1].elements[1].id = selectedElement
    /\ slides[1].elements[2].id # selectedElement

\* the mouseup listener of the gesture in progress
mouseUp(e) ==
    IF e.listener.kind = "drag" THEN dragMouseUp(e) ELSE resizeMouseUp(e)

\* C27: in every state of a drag or resize in progress, selecting any element
\* of the canvas, or switching to any slide, leaves isDragging and
\* isResizing false and the history as it is, and the mouseup that comes
\* later adds no snapshot either.
C27_SelectionAbandonsGesture ==
    InGesture =>
        \A abandoned \in
              {selectElement(this, CurrentElements[j].id) : j \in DOMAIN CurrentElements}
                 \cup {selectSlide(this, idx) : idx \in 0 .. Len(slides) - 1} :
            /\ ~abandoned.isDragging /\ ~abandoned.isResizing
            /\ SameHistory(this, abandoned)
            /\ SameHistory(abandoned, mouseUp(abandoned))

\* C28: in every state of a drag or resize in progress, also after a key
\* event handled since the mousedown (Ctrl+Z, Ctrl+Y, Delete, Ctrl+V and the
\* others), the element the gesture's listeners write to is an element of
\* the current slide of the presentation: the next mousemove changes the
\* presentation's element and the mouseup snapshots the moved element.
C28_GestureElementLive ==
    InGesture =>
        \A ev \in KeyEvents, r \in generateId :
            LET handled == handleKeyboardShortcuts(this, ev, r)
            IN  /\ HeldElements(handled.slides) # {}
                /\ HasCurrent(handled)
                /\ \A el \in HeldElements(handled.slides) :
                      \E j \in DOMAIN handled.slides[handled.currentSlide + 1].elements :
                          handled.slides[handled.currentSlide + 1].elements[j] = el

----------------------------------------------------------------------------
(* Properties of the keyboard                                               *)

\* C29: after a double click on a text element of the canvas (two clicks,
\* which select it, and the dblclick event), the state machine of the spec
\* is in EditingText: there no key event of Delete, Backspace, Ctrl/Cmd+C,
\* +V, +Z, +Y, +Shift+Z changes the presentation, the selection, the
\* clipboard or the history.
C29_ShortcutsOffWhileEditing ==
    \A j \in DOMAIN CurrentElements :
        CurrentElements[j].type = "text" =>
            LET editing == ondblclick(selectElement(this, CurrentElements[j].id),
                                      CurrentElements[j])
            IN  \A ev \in KeyEvents, r \in generateId :
                    handleKeyboardShortcuts(editing, ev, r) = editing

\* C30: for every key event, outside text editing: Delete and Backspace
\* each delete the selected element, if any, and leave the selection empty;
\* Ctrl/Cmd+C copies; Ctrl/Cmd+V pastes; Ctrl/Cmd+Z without Shift undoes;
\* Ctrl/Cmd+Shift+Z and Ctrl/Cmd+Y each redo; the handler does nothing else.
C30_ShortcutDispatch ==
    \A ev \in KeyEvents, r \in generateId :
        LET modified == ev.ctrlKey \/ ev.metaKey
            handled == handleKeyboardShortcuts(this, ev, r)
        IN  IF ~modified /\ ev.key \in {"Delete", "Backspace"}
            THEN /\ handled = IF selectedElement = null THEN this
                              ELSE deleteSelectedElement(this)
                 /\ handled.selectedElement = null
            ELSE IF modified /\ ev.key = "c" THEN handled = copy(this)
            ELSE IF modified /\ ev.key = "v" THEN handled = paste(this, r)
            ELSE IF modified /\ ~ev.shiftKey /\ ev.key = "z" THEN handled = undo(this)
            ELSE IF modified /\ ev.shiftKey /\ ev.key \in {"z", "Z"} THEN handled = redo(this)
            ELSE IF modified /\ ev.key = "y" THEN handled = redo(this)
            ELSE handled = this

----------------------------------------------------------------------------
(* Properties of the element and slide operations                          *)

\* C31: deleteSelectedElement with a selection removes from the current
\* slide the element whose id is the selection, keeps the other elements of
\* that slide in their order and the other slides as they are, empties the
\* selection and adds exactly one snapshot; with an empty selection it
\* changes nothing; and a second call right after the first changes nothing.
C31_DeleteSelectedElement ==
    LET d == deleteSelectedElement(this)
        Keep(el) == el.id # selectedElement
    IN  /\ IF selectedElement = null THEN d = this
           ELSE /\ HasCurrent(this)
                /\ d.slides = [slides EXCEPT
                      ![currentSlide + 1].elements = SelectSeq(@, Keep)]
                /\ d.currentSlide = currentSlide
                /\ d.selectedElement = null
                /\ OneSnapshotMore(this, d)
        /\ deleteSelectedElement(d) = d

\* C32: adding a text, an image with a non-empty URL or a shape appends
\* exactly one new element with its default geometry at the end of the
\* current slide, makes it the selection, adds exactly one snapshot and
\* leaves the other elements and slides unchanged; adding an image with an
\* empty or cancelled URL changes nothing.
C32_AddElement ==
    LET Added(a, type, x, y, w, h) ==
            /\ HasCurrent(this)
            /\ a.currentSlide = currentSlide
            /\ LET was == slides[currentSlide + 1].elements
                   now == a.slides[a.currentSlide + 1].elements
                   new == now[Len(now)]
               IN  /\ Len(now) = Len(was) + 1
                   /\ new.type = type
                   /\ <<new.x, new.y, new.width, new.height>>
                          = <<Num(x), Num(y), Num(w), Num(h)>>
                   /\ a.selectedElement = new.id
                   /\ a.slides = [slides EXCEPT
                          ![currentSlide + 1].elements = Append(@, new)]
            /\ OneSnapshotMore(this, a)
    IN  \A r \in generateId :
            /\ Added(addTextElement(this, r), "text", 100, 100, 200, 50)
            /\ Added(addImageElement(this, TRUE, r), "image",
                     150, 150, 200, 150)
            /\ Added(addShapeElement(this, r), "shape", 200, 200, 120, 80)
            /\ addImageElement(this, FALSE, r) = this

\* C33: addSlide succeeds in every state: it appends exactly one slide, with
\* no elements and a white background, after the slides that were there,
\* which stay as they are and in order; the new slide is then the current
\* one, the selection is empty and exactly one snapshot was added.
C33_AddSlide ==
    \A r \in generateId :
        LET a == addSlide(this, r)
        IN  /\ Len(a.slides) = Len(slides) + 1
            /\ SubSeq(a.slides, 1, Len(slides)) = slides
            /\ a.slides[Len(a.slides)].elements = <<>>
            /\ a.slides[Len(a.slides)].background = "#ffffff"
            /\ a.currentSlide = Len(slides)
            /\ a.selectedElement = null
            /\ OneSnapshotMore(this, a)

\* addSlide has just run on a deck of two slides: the last snapshot is the
\* one before it plus a new, empty slide, which is the current one
C33_Witness ==
    /\ historyIndex = 2
    /\ Len(history[2]) = 2
    /\ slides = history[3]
    /\ SubSeq(slides, 1, 2) = history[2]
    /\ Len(slides) = 3
    /\ slides[3].elements = <<>>
    /\ slides[3].title = [base |-> 3, copies |-> 0]
    /\ currentSlide = 2
    /\ selectedElement = null

\* C34: removeSlide on a deck of more than one slide removes exactly the
\* slide at the current index i, keeps the others as they are and in order,
\* sets the current index to max(0, i - 1) and adds exactly one snapshot.
C34_RemoveSlide ==
    Len(slides) > 1 =>
        LET r == removeSlide(this)
            i == currentSlide
        IN  /\ HasCurrent(this)
            /\ Len(r.slides) = Len(slides) - 1
            /\ SubSeq(r.slides, 1, i) = SubSeq(slides, 1, i)
            /\ SubSeq(r.slides, i + 1, Len(r.slides))
                   = SubSeq(slides, i + 2, Len(slides))
            /\ r.currentSlide = IF i - 1 > 0 THEN i - 1 ELSE 0
            /\ OneSnapshotMore(this, r)

\* C35: duplicateSlide at index i inserts the copy at index i + 1 and makes
\* it the current slide; the original and the other slides are unchanged;
\* the copy has the original's elements, as many and in the same order,
\* each equal to its original in everything but the id; and a drag of an
\* element of the copy leaves the original slide as it was.
C35_DuplicateSlide ==
    \A r \in generateId, rs \in [1 .. MaxElements -> generateId] :
        LET d == duplicateSlide(this, r, rs)
            i == currentSlide
        IN  /\ HasCurrent(this)
            /\ Len(d.slides) = Len(slides) + 1
            /\ SubSeq(d.slides, 1, i + 1) = SubSeq(slides, 1, i + 1)
            /\ SubSeq(d.slides, i + 3, Len(d.slides))
                   = SubSeq(slides, i + 2, Len(slides))
            /\ d.currentSlide = i + 1
            /\ LET original == slides[i + 1].elements
                   duplicate == d.slides[i + 2].elements
               IN  /\ Len(duplicate) = Len(original)
                   /\ \A j \in DOMAIN original :
                         duplicate[j] = [original[j] EXCEPT
                                            !.id = duplicate[j].id,
                                            !.held = FALSE]
            /\ \A j \in DOMAIN d.slides[i + 2].elements, p \in PointerMoves :
                  dragMouseMove(startDrag(d, j, PointerDown), p).slides[i + 1]
                      = slides[i + 1]

----------------------------------------------------------------------------
(* Properties of the snapshots                                             *)

\* the history h2 is the history h with index idx as one handler leaves it:
\* untouched, or cut after idx with one snapshot pushed, the oldest evicted
\* when the cap is passed
SnapshotsKept(h, idx, h2) ==
    LET pushed == Append(SubSeq(h, 1, idx + 1), h2[Len(h2)])
    IN  IF h2 = h THEN TRUE
        ELSE IF Len(pushed) > HistoryCap THEN h2 = Tail(pushed)
        ELSE h2 = pushed

C37_LiveIsCurrentSnapshot ==
    ~InGesture =>
        /\ DeepCopy(slides) = history[historyIndex + 1]
        /\ historyIndex > 0 => redo(undo(this)).slides = DeepCopy(slides)
        /\ historyIndex < Len(history) - 1 =>
               undo(redo(this)).slides = DeepCopy(slides)

\* a gesture that changed an element's geometry has completed: the last
\* two snapshots have the same elements and differ
C37_Witness ==
    /\ ~InGesture
    /\ historyIndex = 1
    /\ Len(history) = 2
    /\ Len(history[1]) = Len(history[2])
    /\ AllElementIds(history[1]) = AllElementIds(history[2])
    /\ history[1] # history[2]
    /\ DeepCopy(slides) = history[2]

\* C38: a snapshot is appended only when the presentation changed: no two
\* adjacent snapshots of the history are deeply equal, every undo there is
\* to take changes the presentation, and a mousedown on an element followed
\* by the mouseup with no move between them leaves the history as it is.
C38_SnapshotOnlyOnChange ==
    /\ \A k \in 1 .. Len(history) - 1 : history[k] # history[k + 1]
    /\ historyIndex > 0 => undo(this).slides # DeepCopy(slides)
    /\ ~InGesture =>
          \A j \in DOMAIN CurrentElements :
              SameHistory(this, dragMouseUp(startDrag(this, j, PointerDown)))

----------------------------------------------------------------------------
(* Properties of text editing                                              *)

\* texts typed into a text element
TypedTexts == {"", "a", "Click to edit title!"}

\* C39: a double click on the selected text element starts the editing of
\* its text; the element's content in the live presentation is then the
\* text typed so far; leaving the element keeps it selected and commits
\* exactly one snapshot, which holds the typed content, so that the undo
\* after it gives back the presentation from before the edit.
C39_TextEditing ==
    \A j \in DOMAIN CurrentElements, text \in TypedTexts :
        LET element == CurrentElements[j]
            edited == oninput(ondblclick(this, element), element, text)
        IN  (element.type = "text" /\ element.id = selectedElement) =>
                /\ edited.slides =
                       [slides EXCEPT
                           ![currentSlide + 1].elements[j].content = text]
                /\ edited.selectedElement = element.id
                /\ OneSnapshotMore(this, edited)
                /\ undo(edited).slides = DeepCopy(slides)

----------------------------------------------------------------------------
(* Properties of the CSV editor                                            *)

\* C40: every download of the CSV editor, by exportCSV and by saveData,
\* writes each header and each cell between double quotes with every double
\* quote inside the field written as two: the file a download step writes
\* is the header row and the rows of the grid in that form.
C40_CsvQuoting ==
    [][LET Quotes(f, i) == Cardinality({k \in 1 .. i : f[k] = "\""})
           Doubled(f) ==
               [m \in 1 .. Len(f) + Quotes(f, Len(f)) |->
                   f[CHOOSE i \in 1 .. Len(f) :
                        \/ i + Quotes(f, i - 1) = m
                        \/ f[i] = "\"" /\ i + Quotes(f, i - 1) + 1 = m]]
           Field(f) == <<"\"">> \o Doubled(f) \o <<"\"">>
           Row(row) == [k \in DOMAIN row |-> Field(row[k])]
       IN  csv'.download # csv.download =>
               csv'.download.content =
                   csvLines(<<Row(csv.csvHeaders)>>
                            \o [r \in DOMAIN csv.csvData |-> Row(csv.csvData[r])])]_vars

============================================================================
